---- MODULE Spec2Model ----
(***************************************************************************)
(* The Last Pilgrim: the timeline model (constants.ts, remotion timing)    *)
(* and the interactive playback driver (App.tsx).                          *)
(*                                                                         *)
(* Times are integers counted in ticks, TicksPerSecond ticks to a second,  *)
(* so that the closed-open interval arithmetic of the code is exact.       *)
(* Indices are 0-based as in the source.                                   *)
(***************************************************************************)
EXTENDS Integers, Sequences, FiniteSets, TLC

\* ------------------------------------------------------------- bounds

\* Resolution of the model's clock: ticks per second.
TicksPerSecond == 60

\* Granularity (seconds) of the asset lengths, of playback progress between
\* two observations and of the seek targets a user picks.
Step == 20

\* How many entries of the duration artifact may disagree with the assets.
MaxOdd == 1

Sec(n) == n * TicksPerSecond

Quantum == Sec(Step)

Min(a, b) == IF a < b THEN a ELSE b

Max(a, b) == IF a > b THEN a ELSE b

\* ------------------------------------------------- constants.ts: data

FALLBACK_TRACK_DURATION_SECONDS == 180

FALLBACK_VIDEO_DURATION_SECONDS == 30

\* CHAPTERS[c].tracks[k].audioFile and CHAPTERS[c].video, chapter by chapter
\* (the other fields of a chapter are presentation only).
CHAPTERS ==
  [c \in 0..3 |->
     CASE c = 0 -> [tracks |-> [k \in 0..2 |-> <<"a_01_01.mp3", "a_01_02.mp3", "a_01_03.mp3">>[k + 1]],
                    video |-> "01.mp4"]
       [] c = 1 -> [tracks |-> [k \in 0..2 |-> <<"a_02_01.mp3", "a_02_02.mp3", "a_02_03.mp3">>[k + 1]],
                    video |-> "02.mp4"]
       [] c = 2 -> [tracks |-> [k \in 0..1 |-> <<"a_03_01.mp3", "a_03_02.mp3">>[k + 1]],
                    video |-> "03.mp4"]
       [] c = 3 -> [tracks |-> [k \in 0..1 |-> <<"a_04_01.mp3", "a_04_02.mp3">>[k + 1]],
                    video |-> "04.mp4"]]

\* CHAPTERS.length
NumChapters == Cardinality(DOMAIN CHAPTERS)

\* chapter.tracks.length
NumTracks(c) == Cardinality(DOMAIN CHAPTERS[c].tracks)

ChapterIndices == 0..(NumChapters - 1)

TrackIndices(c) == 0..(NumTracks(c) - 1)

\* Every (chapter, track) position of the play order.
Pairs == {p \in [chapterIndex : ChapterIndices, trackIndex : 0..2] :
            p.trackIndex < NumTracks(p.chapterIndex)}

AudioFiles == {CHAPTERS[p.chapterIndex].tracks[p.trackIndex] : p \in Pairs}

\* An asset reference as the lookup sees it: the file name and whether the
\* reference carries the "/assets/" prefix.
Ref(name, prefixed) == [name |-> name, assets |-> prefixed]

\* no (chapter, track): the null of the source
Null == [chapterIndex |-> -1, trackIndex |-> -1]

Pair(c, k) == [chapterIndex |-> c, trackIndex |-> k]

VARIABLES
  audioDurations,   \* audioDurations.json: trackDurations, chapterDurations, totalDuration
  videoDurations,   \* videoDurations.json: videoDurations
  query,            \* the last question put to the timeline model and its answer
  app,              \* the App component: its state, its refs and the audio element
  indicator         \* the ProgressIndicator component: props, state, refs, timers

vars == <<audioDurations, videoDurations, query, app, indicator>>

\* ------------------------------------------- constants.ts: functions

\* a JavaScript truthiness test of a table entry that may be missing
HasTruthy(table, key) == key \in DOMAIN table /\ table[key] # 0

\* the lookup of getTrackDuration in a given trackDurations table
LookupTrackDuration(td, audioFile) ==
  LET withAssetsPrefix == Ref(audioFile.name, TRUE)
      withoutAssetsPrefix == Ref(audioFile.name, FALSE)
  IN  IF HasTruthy(td, audioFile) THEN td[audioFile]
      ELSE IF HasTruthy(td, withAssetsPrefix) THEN td[withAssetsPrefix]
      ELSE IF HasTruthy(td, withoutAssetsPrefix) THEN td[withoutAssetsPrefix]
      ELSE Sec(FALLBACK_TRACK_DURATION_SECONDS)

\* an audioDurations without trackDurations stands for a missing file as well
getTrackDuration(audioFile) ==
  IF "trackDurations" \notin DOMAIN audioDurations
  THEN Sec(FALLBACK_TRACK_DURATION_SECONDS)
  ELSE LookupTrackDuration(audioDurations.trackDurations, audioFile)

\* what a call gives: a number returned, or an exception thrown
Returned(v) == [threw |-> FALSE, value |-> v]

Thrown == [threw |-> TRUE, value |-> 0]

\* getVideoDuration, were it to fall back to the constant of the tracks
getVideoDurationTrackFallback(videoFile) ==
  IF ~videoDurations.loaded THEN Returned(Sec(FALLBACK_TRACK_DURATION_SECONDS))
  ELSE IF "videoDurations" \notin DOMAIN videoDurations THEN Thrown
  ELSE IF HasTruthy(videoDurations.videoDurations, videoFile)
  THEN Returned(videoDurations.videoDurations[videoFile])
  ELSE Returned(Sec(FALLBACK_TRACK_DURATION_SECONDS))

\* videoDurations.loaded: the imported object is there (truthy); reading an
\* entry of a table that is not there throws a TypeError
getVideoDuration(videoFile) ==
  IF ~videoDurations.loaded THEN Returned(Sec(FALLBACK_VIDEO_DURATION_SECONDS))
  ELSE IF "videoDurations" \notin DOMAIN videoDurations THEN Thrown
  ELSE IF HasTruthy(videoDurations.videoDurations, videoFile)
  THEN Returned(videoDurations.videoDurations[videoFile])
  ELSE Returned(Sec(FALLBACK_VIDEO_DURATION_SECONDS))

\* the reference CHAPTERS holds for track k of chapter c
TrackFile(c, k) == Ref(CHAPTERS[c].tracks[k], FALSE)

\* getTrackDuration(chapter.tracks[k].audioFile)
TrackDur(c, k) == getTrackDuration(TrackFile(c, k))

RECURSIVE SumTracks(_, _)
\* the sum of getTrackDuration over tracks 0..n-1 of chapter c
SumTracks(c, n) == IF n <= 0 THEN 0 ELSE SumTracks(c, n - 1) + TrackDur(c, n - 1)

RECURSIVE SumLookup(_, _, _)
\* the same sum over a given trackDurations table (calculateAudioDurations.js)
SumLookup(td, c, n) ==
  IF n <= 0 THEN 0 ELSE SumLookup(td, c, n - 1) + LookupTrackDuration(td, TrackFile(c, n - 1))

getChapterDuration(chapterIndex) ==
  IF chapterIndex < 0 \/ chapterIndex >= NumChapters THEN 0
  ELSE IF chapterIndex \in DOMAIN audioDurations.chapterDurations
       THEN audioDurations.chapterDurations[chapterIndex]
       ELSE SumTracks(chapterIndex, NumTracks(chapterIndex))

RECURSIVE SumChapters(_)
\* the sum of getChapterDuration over chapters 0..n-1
SumChapters(n) == IF n <= 0 THEN 0 ELSE SumChapters(n - 1) + getChapterDuration(n - 1)

\* audioDurations.totalDuration as the truthiness test sees it: a table
\* without the field (undefined) and a zero are both falsy
PrecomputedTotal ==
  IF "totalDuration" \in DOMAIN audioDurations THEN audioDurations.totalDuration ELSE 0

\* getTotalDuration with the derived sum stopping one chapter short
getTotalDurationSkipsLast ==
  IF PrecomputedTotal # 0 THEN PrecomputedTotal
  ELSE SumChapters(NumChapters - 1)

getTotalDuration ==
  IF PrecomputedTotal # 0 THEN PrecomputedTotal
  ELSE SumChapters(NumChapters)

RECURSIVE SumChapterTracks(_)
SumChapterTracks(n) ==
  IF n <= 0 THEN 0 ELSE SumChapterTracks(n - 1) + SumTracks(n - 1, NumTracks(n - 1))

\* getChapterBoundaries adding up the tracks, not getChapterDuration
getChapterBoundariesFromTracks == [i \in 0..NumChapters |-> SumChapterTracks(i)]

\* boundaries[i] for i in 0..CHAPTERS.length
getChapterBoundaries == [i \in 0..NumChapters |-> SumChapters(i)]

getChapterStartTime(chapterIndex) ==
  IF chapterIndex \in DOMAIN getChapterBoundaries
  THEN getChapterBoundaries[chapterIndex]
  ELSE 0

getTrackStartTime(chapterIndex, trackIndex) ==
  IF chapterIndex < 0 \/ chapterIndex >= NumChapters THEN 0
  ELSE SumTracks(chapterIndex, Min(trackIndex, NumTracks(chapterIndex)))


\* -------------------------------------------- App.tsx: time to track

RECURSIVE TrackLoopInclusive(_, _, _, _)
\* TrackLoop with the track's end taken as part of the track (<= for <)
TrackLoopInclusive(chapterIdx, progressInChapter, trackIdx, trackAccumulatedTime) ==
  IF trackIdx >= NumTracks(chapterIdx)
  THEN Pair(chapterIdx, NumTracks(chapterIdx) - 1)
  ELSE IF progressInChapter <= trackAccumulatedTime + TrackDur(chapterIdx, trackIdx)
       THEN Pair(chapterIdx, trackIdx)
       ELSE TrackLoopInclusive(chapterIdx, progressInChapter, trackIdx + 1,
                               trackAccumulatedTime + TrackDur(chapterIdx, trackIdx))

RECURSIVE TrackLoop(_, _, _, _)
\* the inner loop of getCurrentAudioTrack from trackIdx on
TrackLoop(chapterIdx, progressInChapter, trackIdx, trackAccumulatedTime) ==
  IF trackIdx >= NumTracks(chapterIdx)
  THEN Pair(chapterIdx, NumTracks(chapterIdx) - 1)
  ELSE IF progressInChapter < trackAccumulatedTime + TrackDur(chapterIdx, trackIdx)
       THEN Pair(chapterIdx, trackIdx)
       ELSE TrackLoop(chapterIdx, progressInChapter, trackIdx + 1,
                      trackAccumulatedTime + TrackDur(chapterIdx, trackIdx))

RECURSIVE ChapterLoop(_, _, _)
\* the outer loop of getCurrentAudioTrack from chapterIdx on
ChapterLoop(progress, chapterIdx, accumulatedTime) ==
  IF chapterIdx >= NumChapters THEN Null
  ELSE IF progress < accumulatedTime + getChapterDuration(chapterIdx)
       THEN TrackLoop(chapterIdx, progress - accumulatedTime, 0, 0)
       ELSE ChapterLoop(progress, chapterIdx + 1,
                        accumulatedTime + getChapterDuration(chapterIdx))

getCurrentAudioTrack(progress) == ChapterLoop(progress, 0, 0)


\* ------------------------------------------------ remotion: frames

FPS == 30

\* Math.round(seconds * fps), seconds given in ticks: halves round up
toFrames(seconds, fps) == (2 * seconds * fps + TicksPerSecond) \div (2 * TicksPerSecond)

\* toSeconds dividing by the default rate whatever rate it is given
toSecondsAtDefaultRate(frames, fps) == (frames * TicksPerSecond) \div FPS

\* frames / fps, in ticks (fps divides TicksPerSecond)
toSeconds(frames, fps) == (frames * TicksPerSecond) \div fps

getTotalFrames(fps) == toFrames(getTotalDuration, fps)

getChapterFrameRange(chapterIndex, fps) ==
  [from |-> toFrames(getChapterStartTime(chapterIndex), fps),
   durationInFrames |-> toFrames(getChapterDuration(chapterIndex), fps)]

RECURSIVE TrackFrameRangesLoop(_, _, _, _)
\* the loop of getTrackFrameRanges from track i on, with its running currentFrame
TrackFrameRangesLoop(chapterIndex, fps, i, currentFrame) ==
  IF i >= NumTracks(chapterIndex) THEN <<>>
  ELSE LET duration == TrackDur(chapterIndex, i)
       IN  <<[from |-> currentFrame,
              durationInFrames |-> toFrames(duration, fps),
              audioFile |-> CHAPTERS[chapterIndex].tracks[i]]>>
           \o TrackFrameRangesLoop(chapterIndex, fps, i + 1,
                                   currentFrame + toFrames(duration, fps))

getTrackFrameRanges(chapterIndex, fps) ==
  IF chapterIndex < 0 \/ chapterIndex >= NumChapters THEN <<>>
  ELSE TrackFrameRangesLoop(chapterIndex, fps, 0, 0)

\* the null of getCurrentTrackAtFrame and getGlobalTrackAtFrame
NullFrame == [chapterIndex |-> -1, trackIndex |-> -1, frameInTrack |-> -1]

RECURSIVE TrackFrameLoop(_, _, _, _, _)
\* the loop of getCurrentTrackAtFrame from track i on, and its tail
TrackFrameLoop(chapterIndex, frameInChapter, fps, i, accumulatedFrames) ==
  IF i >= NumTracks(chapterIndex)
  THEN IF NumTracks(chapterIndex) > 0
       THEN [chapterIndex |-> chapterIndex,
             trackIndex |-> NumTracks(chapterIndex) - 1,
             frameInTrack |-> toFrames(TrackDur(chapterIndex, NumTracks(chapterIndex) - 1), fps)]
       ELSE NullFrame
  ELSE LET trackFrames == toFrames(TrackDur(chapterIndex, i), fps)
       IN  IF frameInChapter < accumulatedFrames + trackFrames
           THEN [chapterIndex |-> chapterIndex, trackIndex |-> i,
                 frameInTrack |-> frameInChapter - accumulatedFrames]
           ELSE TrackFrameLoop(chapterIndex, frameInChapter, fps, i + 1,
                               accumulatedFrames + trackFrames)

\* the result carries the chapter index it was asked about
getCurrentTrackAtFrame(chapterIndex, frameInChapter, fps) ==
  IF chapterIndex < 0 \/ chapterIndex >= NumChapters THEN NullFrame
  ELSE TrackFrameLoop(chapterIndex, frameInChapter, fps, 0, 0)

RECURSIVE GlobalFrameLoop(_, _, _, _)
\* the loop of getGlobalTrackAtFrame from chapterIndex on
GlobalFrameLoop(absoluteFrame, fps, chapterIndex, accumulatedFrames) ==
  IF chapterIndex >= NumChapters THEN NullFrame
  ELSE LET chapterFrames == toFrames(getChapterDuration(chapterIndex), fps)
           trackInfo == getCurrentTrackAtFrame(chapterIndex,
                                               absoluteFrame - accumulatedFrames, fps)
       IN  IF absoluteFrame < accumulatedFrames + chapterFrames /\ trackInfo # NullFrame
           THEN trackInfo
           ELSE GlobalFrameLoop(absoluteFrame, fps, chapterIndex + 1,
                                accumulatedFrames + chapterFrames)

getGlobalTrackAtFrame(absoluteFrame, fps) == GlobalFrameLoop(absoluteFrame, fps, 0, 0)

\* ------------------------------------------ the duration artifact

\* The real length of the audio asset of track k of chapter c (what the audio
\* element reports as its duration): two steps or one, alternating.
MediaDuration(c, k) == Quantum * (1 + ((c + k + 1) % 2))

\* A disagreement between audioDurations.json and the assets: a track entry
\* that is missing, stored under the "/assets/" key, or off by one step; a
\* chapter entry that is missing, off by one step from the sum of its tracks,
\* or the fallback sum the script writes; a total that is missing or off by
\* one step from the sum of the chapters; track entries that are not a whole
\* number of frames (each one tick, half a frame at 30 fps, longer).
Deviations ==
  {[part |-> "track", at |-> p, how |-> h] :
     p \in Pairs, h \in {"absent", "prefixed", "short", "long"}}
  \cup {[part |-> "chapter", at |-> Pair(c, -1), how |-> h] :
     c \in ChapterIndices, h \in {"absent", "short", "long", "fallback"}}
  \cup {[part |-> "total", at |-> Null, how |-> h] :
          h \in {"absent", "zero", "short", "long"}}
  \cup {[part |-> "tracks", at |-> Null, how |-> "ragged"]}

HowOf(D, part, at) ==
  IF \E d \in D : d.part = part /\ d.at = at
  THEN (CHOOSE d \in D : d.part = part /\ d.at = at).how
  ELSE "exact"

Skewed(how, exact) ==
  CASE how = "short" -> exact - Quantum
    [] how = "long" -> exact + Quantum
    [] OTHER -> exact

\* trackDurations as calculateDurations writes it, with the deviations D
TrackTable(D) ==
  LET present == {p \in Pairs : HowOf(D, "track", p) # "absent"}
      keyOf(p) == Ref(CHAPTERS[p.chapterIndex].tracks[p.trackIndex],
                      HowOf(D, "track", p) = "prefixed")
      valOf(p) == Skewed(HowOf(D, "track", p), MediaDuration(p.chapterIndex, p.trackIndex))
                  + (IF HowOf(D, "tracks", Null) = "ragged" THEN 1 ELSE 0)
  IN  [key \in {keyOf(p) : p \in present} |->
         valOf(CHOOSE p \in present : keyOf(p) = key)]

\* chapterDurations over the track table td, with the deviations D
ChapterTable(D, td) ==
  LET present == {c \in ChapterIndices : HowOf(D, "chapter", Pair(c, -1)) # "absent"}
  IN  [c \in present |->
         IF HowOf(D, "chapter", Pair(c, -1)) = "fallback"
         THEN Sec(FALLBACK_TRACK_DURATION_SECONDS) * NumTracks(c)
         ELSE Skewed(HowOf(D, "chapter", Pair(c, -1)), SumLookup(td, c, NumTracks(c)))]

RECURSIVE SumChapterTable(_, _, _)
SumChapterTable(cd, td, n) ==
  IF n <= 0 THEN 0
  ELSE SumChapterTable(cd, td, n - 1)
       + (IF (n - 1) \in DOMAIN cd THEN cd[n - 1] ELSE SumLookup(td, n - 1, NumTracks(n - 1)))

\* the whole artifact with the deviations D
DurationTable(D) ==
  LET td == TrackTable(D)
      cd == ChapterTable(D, td)
  IN  IF HowOf(D, "total", Null) = "absent"
      THEN [trackDurations |-> td, chapterDurations |-> cd]
      ELSE [trackDurations |-> td,
            chapterDurations |-> cd,
            totalDuration |-> IF HowOf(D, "total", Null) = "zero" THEN 0
                              ELSE Skewed(HowOf(D, "total", Null),
                                          SumChapterTable(cd, td, NumChapters))]

DurationTables ==
  {DurationTable({d[i] : i \in DOMAIN d}) :
     d \in UNION {[1..n -> Deviations] : n \in 0..MaxOdd}}

VideoFiles == {CHAPTERS[c].video : c \in ChapterIndices}

\* videoDurations.json as calculateVideoDurations writes it for the assets
VideoTable == [loaded |-> TRUE, videoDurations |-> [v \in VideoFiles |-> Quantum]]

\* what an entry of a table may hold: zero, a negative or a positive number
EntryValues == {0, 0 - Quantum, Quantum}

\* the track whose entries vary, and one that never has an entry
ProbedFile == CHAPTERS[0].tracks[0]

UnlistedFile == CHAPTERS[3].tracks[1]

\* audioDurations.json with every content of the entries of one track, under
\* its bare and its prefixed key, and without the table altogether
TrackEntryTables ==
  {[trackDurations |-> td, chapterDurations |-> [c \in {} |-> 0], totalDuration |-> 0] :
     td \in UNION {[K -> EntryValues] :
                     K \in SUBSET {Ref(ProbedFile, FALSE), Ref(ProbedFile, TRUE)}}}
  \cup {[chapterDurations |-> [c \in {} |-> 0], totalDuration |-> 0]}

\* videoDurations.json likewise, for one video: no file, a file without the
\* table, and the table with every content of the entry
VideoEntryTables ==
  {[loaded |-> TRUE, videoDurations |-> vd] :
     vd \in UNION {[K -> EntryValues] : K \in SUBSET {CHAPTERS[0].video}}}
  \cup {[loaded |-> FALSE], [loaded |-> TRUE]}

\* The tables the driver is run against: the consistent one, and those whose
\* entry for the first or the last track, the first or the last chapter or the
\* total is off by one step.
DriverDeviations ==
  {d \in Deviations :
     /\ d.how \in {"short", "long"}
     /\ d.at \in {Null, Pair(0, -1), Pair(0, 0), Pair(NumChapters - 1, -1),
                  Pair(NumChapters - 1, NumTracks(NumChapters - 1) - 1)}}

DriverTables ==
  {DurationTable({d[i] : i \in DOMAIN d}) :
     d \in UNION {[1..n -> DriverDeviations] : n \in 0..MaxOdd}}

\* ---------------------------------------------- App.tsx: the driver

SEEK_AMOUNT == 10

\* seek targets are taken every SeekStride steps along the timeline
SeekStride == 4

\* no position was written
NoWrite == -1

\* What the last step did: the handler that ran and its argument, whether it
\* returned early (ignored), assigned audio.src (reload), called play() and
\* how the element answered, the position it wrote to audio.currentTime, and
\* what a progress effect run in the same step did (fx).
NoLog ==
  [op |-> "none", arg |-> 0, ignored |-> FALSE, reload |-> FALSE,
   play |-> "none", wrote |-> NoWrite, fx |-> "none"]

Log(op, arg) == [NoLog EXCEPT !.op = op, !.arg = arg]

Played(ok) == IF ok THEN "accepted" ELSE "rejected"

\* the component after mounting: useState initial values, empty refs, new Audio()
InitApp ==
  [isAudioStarted |-> FALSE,
   currentChapterIndex |-> 0,
   currentTrackIndex |-> 0,
   currentProgress |-> 0,
   currentAudioIndexRef |-> Null,
   audio |-> [src |-> Null, currentTime |-> 0, paused |-> TRUE, loaded |-> FALSE],
   startPending |-> FALSE,        \* handleStartAudio is waiting on play()
   intervalTrackIndex |-> 0,      \* currentTrackIndex as the interval's closure holds it
   recordingState |-> [isRecording |-> FALSE],   \* of the page that plays
   autoStop |-> FALSE,            \* the stop-and-save of the recording is scheduled
   recorder |-> "idle",           \* the recording of this page held by the control page
   last |-> NoLog]

\* ---- the audio element (src holds the pair whose file is loaded)

\* audio.duration once the metadata is loaded
AudioLength(audio) == MediaDuration(audio.src.chapterIndex, audio.src.trackIndex)

\* audio.src = getAudioFilePath(c, k): the element loads the asset anew
SetSrc(audio, p) == [src |-> p, currentTime |-> 0, paused |-> TRUE, loaded |-> FALSE]

\* audio.currentTime = v: the element keeps the position inside the asset
SetCurrentTime(audio, v) == [audio EXCEPT !.currentTime = Max(0, Min(v, AudioLength(audio)))]

\* audio.pause()
Pause(audio) == [audio EXCEPT !.paused = TRUE]

\* audio.play(), accepted or rejected by the element
Play(audio, ok) == [audio EXCEPT !.paused = ~ok]

\* ---- handlers, each from the component before it to the component after it

handleSeek(a, targetProgress, ok) ==
  LET log == Log("seek", targetProgress)
      clampedProgress == Max(0, Min(targetProgress, getTotalDuration))
      audioTrack == getCurrentAudioTrack(clampedProgress)
      chapterIndex == audioTrack.chapterIndex
      trackIndex == audioTrack.trackIndex
      progressInChapter == clampedProgress - getChapterStartTime(chapterIndex)
      progressInTrack == progressInChapter - SumTracks(chapterIndex, trackIndex)
      targetTrackTime == Max(0, Min(progressInTrack, TrackDur(chapterIndex, trackIndex)))
      needsSwitch == a.currentAudioIndexRef = Null \/ a.currentAudioIndexRef # audioTrack
  IN  IF ~a.isAudioStarted \/ audioTrack = Null
      THEN [a EXCEPT !.last = [log EXCEPT !.ignored = TRUE]]
      ELSE IF needsSwitch
      THEN [a EXCEPT
              !.audio = Play(SetCurrentTime(SetSrc(Pause(a.audio), audioTrack), targetTrackTime), ok),
              !.currentAudioIndexRef = audioTrack,
              !.currentChapterIndex = chapterIndex,
              !.currentTrackIndex = trackIndex,
              !.currentProgress = clampedProgress,
              !.last = [log EXCEPT !.reload = TRUE, !.play = Played(ok), !.wrote = targetTrackTime]]
      ELSE [a EXCEPT
              !.audio = SetCurrentTime(a.audio, targetTrackTime),
              !.currentProgress = clampedProgress,
              !.last = [log EXCEPT !.wrote = targetTrackTime]]

\* handleStartAudio, were it to record the pair and the started flag before
\* play() has answered
handleStartAudioCallRecordsFirst(a, ok) ==
  [a EXCEPT
     !.audio = Play(SetCurrentTime(SetSrc(a.audio, Pair(0, 0)), 0), ok),
     !.currentAudioIndexRef = Pair(0, 0),
     !.isAudioStarted = TRUE,
     !.startPending = ok,
     !.last = [Log("start", 0) EXCEPT !.reload = TRUE, !.play = Played(ok), !.wrote = 0]]

\* handleStartAudio up to its await of audio.play()
handleStartAudioCall(a, ok) ==
  [a EXCEPT
     !.audio = Play(SetCurrentTime(SetSrc(a.audio, Pair(0, 0)), 0), ok),
     !.startPending = ok,
     !.last = [Log("start", 0) EXCEPT !.reload = TRUE, !.play = Played(ok), !.wrote = 0]]

\* handleStartAudio after play() resolved: playback has begun
handleStartAudioResume(a) ==
  [a EXCEPT
     !.audio.loaded = TRUE,
     !.currentAudioIndexRef = Pair(0, 0),
     !.currentChapterIndex = 0,
     !.currentTrackIndex = 0,
     !.isAudioStarted = TRUE,
     !.startPending = FALSE,
     !.last = Log("started", 0)]

\* handleTrackEnd, were it to start the chapter over at the chapter's last track
handleTrackEndRestartsChapter(a, ok) ==
  LET log == Log("ended", 0)
      chapterIndex == a.currentAudioIndexRef.chapterIndex
      trackIndex == a.currentAudioIndexRef.trackIndex
      switched(p) == Play(SetCurrentTime(SetSrc(Pause(a.audio), p), 0), ok)
      switchLog == [log EXCEPT !.reload = TRUE, !.play = Played(ok), !.wrote = 0]
  IN  IF a.currentAudioIndexRef = Null
      THEN [a EXCEPT !.last = [log EXCEPT !.ignored = TRUE]]
      ELSE IF trackIndex < NumTracks(chapterIndex) - 1
      THEN [a EXCEPT
              !.audio = switched(Pair(chapterIndex, trackIndex + 1)),
              !.currentAudioIndexRef = Pair(chapterIndex, trackIndex + 1),
              !.currentTrackIndex = trackIndex + 1,
              !.last = switchLog]
      ELSE IF chapterIndex < NumChapters - 1
      THEN [a EXCEPT
              !.audio = switched(Pair(chapterIndex, 0)),
              !.currentAudioIndexRef = Pair(chapterIndex, 0),
              !.currentTrackIndex = 0,
              !.last = switchLog]
      ELSE [a EXCEPT
              !.audio = SetCurrentTime(Pause(a.audio), 0),
              !.currentProgress = getTotalDuration,
              !.last = [log EXCEPT !.wrote = 0]]

\* the timeout that stops and saves is set when this page's own
\* recordingState says a recording is on
handleAutoStopRecording(a) ==
  IF a.recordingState.isRecording THEN [a EXCEPT !.autoStop = TRUE] ELSE a

handleTrackEnd(a, ok) ==
  LET log == Log("ended", 0)
      chapterIndex == a.currentAudioIndexRef.chapterIndex
      trackIndex == a.currentAudioIndexRef.trackIndex
      switched(p) == Play(SetCurrentTime(SetSrc(Pause(a.audio), p), 0), ok)
      switchLog == [log EXCEPT !.reload = TRUE, !.play = Played(ok), !.wrote = 0]
  IN  IF a.currentAudioIndexRef = Null
      THEN [a EXCEPT !.last = [log EXCEPT !.ignored = TRUE]]
      ELSE IF trackIndex < NumTracks(chapterIndex) - 1
      THEN [a EXCEPT
              !.audio = switched(Pair(chapterIndex, trackIndex + 1)),
              !.currentAudioIndexRef = Pair(chapterIndex, trackIndex + 1),
              !.currentTrackIndex = trackIndex + 1,
              !.last = switchLog]
      ELSE IF chapterIndex < NumChapters - 1
      THEN [a EXCEPT
              !.audio = switched(Pair(chapterIndex + 1, 0)),
              !.currentAudioIndexRef = Pair(chapterIndex + 1, 0),
              !.currentChapterIndex = chapterIndex + 1,
              !.currentTrackIndex = 0,
              !.last = switchLog]
      ELSE handleAutoStopRecording(
             [a EXCEPT
                !.audio = SetCurrentTime(Pause(a.audio), 0),
                !.currentProgress = getTotalDuration,
                !.last = [log EXCEPT !.wrote = 0]])

\* the progress-driven effect, were it to switch under a track that plays
progressEffectWhilePlaying(a, progress, ok) ==
  LET audioTrack == getCurrentAudioTrack(progress)
      chapterIndex == audioTrack.chapterIndex
      trackIndex == audioTrack.trackIndex
      needsSwitch == a.currentAudioIndexRef # audioTrack
      progressInChapter == progress - getChapterStartTime(chapterIndex)
      progressInTrack == progressInChapter - SumTracks(chapterIndex, trackIndex)
      position == Max(0, Min(progressInTrack, TrackDur(chapterIndex, trackIndex)))
  IN  IF \/ ~a.isAudioStarted
         \/ a.currentAudioIndexRef = Null
         \/ audioTrack = Null
         \/ ~needsSwitch
      THEN [a EXCEPT !.last.fx = "kept"]
      ELSE [a EXCEPT
              !.audio = Play(SetCurrentTime(SetSrc(Pause(a.audio), audioTrack), position), ok),
              !.currentAudioIndexRef = audioTrack,
              !.currentChapterIndex = chapterIndex,
              !.currentTrackIndex = trackIndex,
              !.last.fx = IF ok THEN "reload" ELSE "reload, play rejected"]

\* the body of the progress-driven effect, for the render that had `progress`
progressEffect(a, progress, ok) ==
  LET audioTrack == getCurrentAudioTrack(progress)
      chapterIndex == audioTrack.chapterIndex
      trackIndex == audioTrack.trackIndex
      needsSwitch == a.currentAudioIndexRef # audioTrack
      \* audio.duration is NaN until the metadata is loaded: the test is false
      stillPlaying == /\ ~a.audio.paused
                      /\ a.audio.loaded
                      /\ a.audio.currentTime < AudioLength(a.audio)
      progressInChapter == progress - getChapterStartTime(chapterIndex)
      progressInTrack == progressInChapter - SumTracks(chapterIndex, trackIndex)
      position == Max(0, Min(progressInTrack, TrackDur(chapterIndex, trackIndex)))
  IN  IF \/ ~a.isAudioStarted
         \/ a.currentAudioIndexRef = Null
         \/ audioTrack = Null
         \/ ~needsSwitch
         \/ stillPlaying
      THEN [a EXCEPT !.last.fx = "kept"]
      ELSE [a EXCEPT
              !.audio = Play(SetCurrentTime(SetSrc(Pause(a.audio), audioTrack), position), ok),
              !.currentAudioIndexRef = audioTrack,
              !.currentChapterIndex = chapterIndex,
              !.currentTrackIndex = trackIndex,
              !.last.fx = IF ok THEN "reload" ELSE "reload, play rejected"]

\* updateProgress, were it to publish the position of a paused element too
updateProgressWhilePaused(a) ==
  LET chapterIndex == a.currentAudioIndexRef.chapterIndex
      trackIndex == a.currentAudioIndexRef.trackIndex
      currentTrackProgress == Min(a.audio.currentTime, TrackDur(chapterIndex, trackIndex))
      totalPlayedTime == getChapterStartTime(chapterIndex) + SumTracks(chapterIndex, trackIndex)
                         + currentTrackProgress
      newProgress == Min(totalPlayedTime, getTotalDuration)
  IN  IF a.currentAudioIndexRef = Null
      THEN [a EXCEPT !.last = [Log("tick", 0) EXCEPT !.ignored = TRUE]]
      ELSE [a EXCEPT
              !.currentProgress = newProgress,
              !.currentChapterIndex = chapterIndex,
              !.currentTrackIndex = IF trackIndex # a.intervalTrackIndex THEN trackIndex ELSE @,
              !.last = Log("tick", 0)]

\* updateProgress, were it to leave out the tracks of the chapter already played
updateProgressWithoutTracks(a) ==
  LET chapterIndex == a.currentAudioIndexRef.chapterIndex
      trackIndex == a.currentAudioIndexRef.trackIndex
      currentTrackProgress == Min(a.audio.currentTime, TrackDur(chapterIndex, trackIndex))
      totalPlayedTime == getChapterStartTime(chapterIndex) + currentTrackProgress
      newProgress == Min(totalPlayedTime, getTotalDuration)
  IN  IF a.currentAudioIndexRef = Null \/ a.audio.paused
      THEN [a EXCEPT !.last = [Log("tick", 0) EXCEPT !.ignored = TRUE]]
      ELSE [a EXCEPT
              !.currentProgress = newProgress,
              !.currentChapterIndex = chapterIndex,
              !.currentTrackIndex = IF trackIndex # a.intervalTrackIndex THEN trackIndex ELSE @,
              !.last = Log("tick", 0)]

\* updateProgress, the interval's callback
updateProgress(a) ==
  LET chapterIndex == a.currentAudioIndexRef.chapterIndex
      trackIndex == a.currentAudioIndexRef.trackIndex
      completedChaptersDuration == getChapterStartTime(chapterIndex)
      completedTracksInChapterDuration == SumTracks(chapterIndex, trackIndex)
      currentTrackProgress == Min(a.audio.currentTime, TrackDur(chapterIndex, trackIndex))
      totalPlayedTime == completedChaptersDuration + completedTracksInChapterDuration
                         + currentTrackProgress
      newProgress == Min(totalPlayedTime, getTotalDuration)
  IN  IF a.currentAudioIndexRef = Null \/ a.audio.paused
      THEN [a EXCEPT !.last = [Log("tick", 0) EXCEPT !.ignored = TRUE]]
      ELSE [a EXCEPT
              !.currentProgress = newProgress,
              !.currentChapterIndex = chapterIndex,
              !.currentTrackIndex = IF trackIndex # a.intervalTrackIndex THEN trackIndex ELSE @,
              !.last = Log("tick", 0)]

\* handleKeyDown, ArrowRight
handleKeyRight(a) ==
  LET chapterIndex == a.currentAudioIndexRef.chapterIndex
      trackIndex == a.currentAudioIndexRef.trackIndex
      currentTrackDuration == TrackDur(chapterIndex, trackIndex)
      \* audio.duration || currentTrackDuration
      limit == IF a.audio.loaded /\ AudioLength(a.audio) # 0
               THEN AudioLength(a.audio) ELSE currentTrackDuration
      newTime == Min(a.audio.currentTime + Sec(SEEK_AMOUNT), limit)
      currentTrackProgress == Min(newTime, currentTrackDuration)
      totalPlayedTime == getChapterStartTime(chapterIndex) + SumTracks(chapterIndex, trackIndex)
                         + currentTrackProgress
      newProgress == Min(totalPlayedTime, getTotalDuration)
  IN  IF ~a.isAudioStarted \/ a.currentAudioIndexRef = Null
      THEN [a EXCEPT !.last = [Log("right", 0) EXCEPT !.ignored = TRUE]]
      ELSE [a EXCEPT
              !.audio = SetCurrentTime(a.audio, newTime),
              !.currentProgress = newProgress,
              !.last = [Log("right", 0) EXCEPT !.wrote = newTime]]

\* handleKeyDown, ArrowLeft
handleKeyLeft(a) ==
  LET chapterIndex == a.currentAudioIndexRef.chapterIndex
      trackIndex == a.currentAudioIndexRef.trackIndex
      currentTrackDuration == TrackDur(chapterIndex, trackIndex)
      newTime == Max(a.audio.currentTime - Sec(SEEK_AMOUNT), 0)
      currentTrackProgress == Min(Max(newTime, 0), currentTrackDuration)
      totalPlayedTime == getChapterStartTime(chapterIndex) + SumTracks(chapterIndex, trackIndex)
                         + currentTrackProgress
      newProgress == Max(totalPlayedTime, 0)
  IN  IF ~a.isAudioStarted \/ a.currentAudioIndexRef = Null
      THEN [a EXCEPT !.last = [Log("left", 0) EXCEPT !.ignored = TRUE]]
      ELSE [a EXCEPT
              !.audio = SetCurrentTime(a.audio, newTime),
              !.currentProgress = newProgress,
              !.last = [Log("left", 0) EXCEPT !.wrote = newTime]]

\* ---- rendering: what React does with the state a handler left

\* The component a step leaves, given the component before it (a) and the one
\* the handler produced (b).  When the handler changed a dependency of the
\* progress effect, the render that follows runs the effect with the new
\* progress.  The interval is set up again, with a new closure, when its
\* dependencies changed.
Commit(a, b, ok) ==
  LET changed == b.currentProgress # a.currentProgress \/ b.isAudioStarted # a.isAudioStarted
      c == IF changed THEN progressEffect(b, b.currentProgress, ok) ELSE b
  IN  IF c.currentChapterIndex # a.currentChapterIndex \/ c.isAudioStarted # a.isAudioStarted
      THEN [c EXCEPT !.intervalTrackIndex = c.currentTrackIndex]
      ELSE c

\* one step: the handler's result rendered; play() in the effect is answered
\* only where the effect calls it
Do(b) ==
  /\ \E ok \in IF Commit(app, b, TRUE).last.fx = "reload" THEN BOOLEAN ELSE {TRUE} :
       app' = Commit(app, b, ok)
  /\ UNCHANGED <<audioDurations, videoDurations, query, indicator>>

\* ---- steps

\* the start button or the space key, offered while the audio has not started
StartRequest == ~app.isAudioStarted /\ \E ok \in BOOLEAN : Do(handleStartAudioCall(app, ok))

StartResolve == app.startPending /\ Do(handleStartAudioResume(app))

\* the element has read the metadata of the asset it is loading
LoadedMetadata ==
  /\ app.audio.src # Null /\ ~app.audio.loaded /\ ~app.startPending
  /\ Do([app EXCEPT !.audio.loaded = TRUE, !.last = Log("loaded", 0)])

\* the interval has published the position the audio is at now
Polled(a) ==
  LET b == updateProgress(a)
  IN  /\ b.currentProgress = a.currentProgress
      /\ b.currentChapterIndex = a.currentChapterIndex
      /\ b.currentTrackIndex = a.currentTrackIndex

\* playback moves on by one step, up to the end of the asset; the interval
\* fires many times in a step, so the step before has been published
AudioAdvance ==
  /\ app.audio.src # Null /\ app.audio.loaded /\ ~app.audio.paused /\ ~app.startPending
  /\ Polled(app)
  /\ app.audio.currentTime < AudioLength(app.audio)
  /\ Do([app EXCEPT !.audio = SetCurrentTime(@, @.currentTime + Quantum),
                    !.last = Log("advance", 0)])

\* playback has reached the end: the element pauses and fires 'ended'
Ended ==
  /\ app.audio.src # Null /\ app.audio.loaded /\ ~app.audio.paused /\ ~app.startPending
  /\ app.audio.currentTime >= AudioLength(app.audio)
  /\ \E ok \in BOOLEAN : Do(handleTrackEnd([app EXCEPT !.audio = Pause(@)], ok))

\* The recording is started and stopped on the control page (?mode=control),
\* which opens the page that plays in another tab and records that tab; the
\* page that plays (mode 'playback') has no control that starts a recording,
\* so its own recordingState never changes.  A recording that was stopped is
\* saved; another one opens another page.
StartRecording ==
  /\ app.recorder = "idle"
  /\ app' = [app EXCEPT !.recorder = "recording"]
  /\ UNCHANGED <<audioDurations, videoDurations, query, indicator>>

StopRecording ==
  /\ app.recorder = "recording"
  /\ app' = [app EXCEPT !.recorder = "saved"]
  /\ UNCHANGED <<audioDurations, videoDurations, query, indicator>>

\* the 100 ms interval, which exists once the audio has started
Tick == app.isAudioStarted /\ Do(updateProgress(app))

\* the targets a click on the progress bar, or any caller, may pass
SeekTargets ==
  {0 - Quantum, getTotalDuration - Quantum, getTotalDuration, getTotalDuration + Quantum}
  \cup {SeekStride * Quantum * i : i \in 0..(getTotalDuration \div (SeekStride * Quantum))}

\* play() is answered only where handleSeek calls it
Seek ==
  \E t \in SeekTargets :
    \E ok \in IF handleSeek(app, t, TRUE).last.reload THEN BOOLEAN ELSE {TRUE} :
      Do(handleSeek(app, t, ok))

KeyRight == Do(handleKeyRight(app))

KeyLeft == Do(handleKeyLeft(app))

\* ------------------------------------------- ProgressIndicator.tsx
\* Times are in clock steps of updateInterval (100 ms) each.

updateInterval == 1

\* the delay of the auto-advance after completion: 2000 ms
completeDelay == 20 * updateInterval

\* Date.now() at mount, the prop videoDuration and how long the clock runs
Epoch == 50

videoDuration == 3

Horizon == 24

\* how many times the parent renders the component with other props
MaxRenders == 3

\* the component after its first render and the three effects run in order:
\* the timer effect sets startTimeRef and the interval when playing, the
\* reset effect then sets startTimeRef back to 0
MountIndicator(isPlaying) ==
  [isPlaying |-> isPlaying,
   currentChapterIndex |-> 0,
   progress |-> 0,
   isComplete |-> FALSE,
   timeElapsed |-> 0,
   startTimeRef |-> 0,
   pausedTimeRef |-> 0,
   interval |-> IF isPlaying THEN Epoch + updateInterval ELSE 0,   \* when it fires next; 0: none
   timeouts |-> {},                                                \* when onComplete is called
   videoPaused |-> FALSE,
   now |-> Epoch,
   renders |-> 0,
   pausedAt |-> 0 - 1,        \* what the clock read at the last pause in this chapter
   resumedAt |-> 0 - 1,       \* when playing was switched on again after it
   op |-> "mount"]

\* the timer effect run again: its cleanup, then its body
timerEffect(d) ==
  IF ~d.isPlaying THEN [d EXCEPT !.interval = 0]
  ELSE LET started ==
             IF d.startTimeRef # 0 THEN d
             ELSE IF d.pausedTimeRef > 0
                  THEN [d EXCEPT !.startTimeRef = d.now - d.pausedTimeRef, !.pausedTimeRef = 0]
                  ELSE [d EXCEPT !.startTimeRef = d.now]
       IN  [started EXCEPT !.interval = d.now + updateInterval]

\* the pause effect
pauseEffect(d) ==
  IF ~d.isPlaying /\ d.startTimeRef > 0
  THEN [d EXCEPT !.pausedTimeRef = d.now - d.startTimeRef, !.startTimeRef = 0]
  ELSE d

\* the reset effect; the render that follows a change of isComplete runs the
\* timer effect again
resetEffect(d) ==
  LET reset == [d EXCEPT !.isComplete = FALSE, !.progress = 0, !.timeElapsed = 0,
                         !.startTimeRef = 0, !.pausedTimeRef = 0]
  IN  IF d.isComplete THEN timerEffect(reset) ELSE reset

\* the callback of setInterval
intervalCallback(d) ==
  LET elapsed == d.now - d.startTimeRef
      shown == [d EXCEPT !.progress = Min((elapsed * 100) \div videoDuration, 100),
                         !.timeElapsed = elapsed,
                         !.interval = d.now + updateInterval,
                         !.op = "tick"]
  IN  IF elapsed >= videoDuration /\ ~d.isComplete
      THEN timerEffect([shown EXCEPT !.isComplete = TRUE,
                                     !.videoPaused = TRUE,
                                     !.timeouts = @ \cup {d.now + completeDelay}])
      ELSE shown

\* a timer that is due fires before the clock goes on
TimerDue(d) == d.interval = d.now \/ d.now \in d.timeouts

TimePasses ==
  /\ indicator.now < Epoch + Horizon
  /\ ~TimerDue(indicator)
  /\ indicator' = [indicator EXCEPT !.now = @ + 1, !.op = "time"]
  /\ UNCHANGED <<audioDurations, videoDurations, query, app>>

IntervalTick ==
  /\ indicator.interval = indicator.now
  /\ indicator' = intervalCallback(indicator)
  /\ UNCHANGED <<audioDurations, videoDurations, query, app>>

\* the timeout of the auto-advance calls onComplete of the parent
CompleteTimeout ==
  /\ indicator.now \in indicator.timeouts
  /\ indicator' = [indicator EXCEPT !.timeouts = @ \ {indicator.now}, !.op = "onComplete"]
  /\ UNCHANGED <<audioDurations, videoDurations, query, app>>

\* the parent renders with isPlaying false
SwitchOff ==
  /\ indicator.isPlaying
  /\ indicator.renders < MaxRenders
  /\ indicator' =
       [pauseEffect(timerEffect([indicator EXCEPT !.isPlaying = FALSE]))
          EXCEPT !.pausedAt = indicator.now - indicator.startTimeRef,
                 !.resumedAt = 0 - 1,
                 !.renders = @ + 1,
                 !.op = "pause"]
  /\ UNCHANGED <<audioDurations, videoDurations, query, app>>

\* the parent renders with isPlaying true
SwitchOn ==
  /\ ~indicator.isPlaying
  /\ indicator.renders < MaxRenders
  /\ indicator' =
       [pauseEffect(timerEffect([indicator EXCEPT !.isPlaying = TRUE]))
          EXCEPT !.resumedAt = IF indicator.pausedAt >= 0 THEN indicator.now ELSE 0 - 1,
                 !.renders = @ + 1,
                 !.op = "resume"]
  /\ UNCHANGED <<audioDurations, videoDurations, query, app>>

\* the parent renders with another chapter
ChangeChapter(c) ==
  /\ c # indicator.currentChapterIndex
  /\ indicator.renders < MaxRenders
  /\ indicator' =
       [resetEffect([indicator EXCEPT !.currentChapterIndex = c])
          EXCEPT !.pausedAt = 0 - 1, !.resumedAt = 0 - 1,
                 !.renders = @ + 1, !.op = "chapter"]
  /\ UNCHANGED <<audioDurations, videoDurations, query, app>>

\* --------------------------------------------- the timeline, queried

NoQuery == [fn |-> "none", arg |-> 0, pair |-> Null, value |-> 0]

\* the times a caller asks about: every half step from before 0 to past the end
QueryTimes ==
  {(Quantum \div 2) * i : i \in (0 - 2)..((getTotalDuration + Quantum) \div (Quantum \div 2))}

\* the frames a renderer asks about: the same instants, and the frames around
QueryFrames ==
  {toFrames(t, FPS) + b : t \in {u \in QueryTimes : u >= 0}, b \in (0 - 1)..3}

AskTrack(t) ==
  /\ query' = [fn |-> "getCurrentAudioTrack", arg |-> t,
               pair |-> getCurrentAudioTrack(t), value |-> 0]
  /\ UNCHANGED <<audioDurations, videoDurations, app, indicator>>

AskChapterStart(i) ==
  /\ query' = [fn |-> "getChapterStartTime", arg |-> i,
               pair |-> Null, value |-> getChapterStartTime(i)]
  /\ UNCHANGED <<audioDurations, videoDurations, app, indicator>>

AskFrame(f) ==
  /\ LET r == getGlobalTrackAtFrame(f, FPS)
     IN  query' = [fn |-> "getGlobalTrackAtFrame", arg |-> f,
                   pair |-> Pair(r.chapterIndex, r.trackIndex), value |-> r.frameInTrack]
  /\ UNCHANGED <<audioDurations, videoDurations, app, indicator>>

AskChapterFrames(c) ==
  /\ query' = [fn |-> "getChapterFrameRange", arg |-> c,
               pair |-> Null, value |-> getChapterFrameRange(c, FPS).from]
  /\ UNCHANGED <<audioDurations, videoDurations, app, indicator>>

\* what Chapter renders: the audio sequences of the chapter, inside the
\* sequence of the chapter
AskTrackFrames(c) ==
  /\ query' = [fn |-> "getTrackFrameRanges", arg |-> c,
               ranges |-> getTrackFrameRanges(c, FPS),
               value |-> IF c \in ChapterIndices
                         THEN getChapterFrameRange(c, FPS).durationInFrames ELSE 0]
  /\ UNCHANGED <<audioDurations, videoDurations, app, indicator>>

AskChapterDuration(c) ==
  /\ query' = [fn |-> "getChapterDuration", arg |-> c,
               pair |-> Null, value |-> getChapterDuration(c)]
  /\ UNCHANGED <<audioDurations, videoDurations, app, indicator>>

AskTotal ==
  /\ query' = [fn |-> "getTotalDuration", arg |-> 0,
               pair |-> Null, value |-> getTotalDuration]
  /\ UNCHANGED <<audioDurations, videoDurations, app, indicator>>

AskTrackDuration(ref) ==
  /\ query' = [fn |-> "getTrackDuration", arg |-> ref,
               threw |-> FALSE, value |-> getTrackDuration(ref)]
  /\ UNCHANGED <<audioDurations, videoDurations, app, indicator>>

AskVideoDuration(videoFile) ==
  /\ query' = [fn |-> "getVideoDuration", arg |-> videoFile,
               threw |-> getVideoDuration(videoFile).threw,
               value |-> getVideoDuration(videoFile).value]
  /\ UNCHANGED <<audioDurations, videoDurations, app, indicator>>

\* the seconds (in ticks) and the frames that are converted, 0..ClockSpan
ClockSpan == 150

\* the frame rates of a composition: those with a whole number of ticks a frame
Rates == {fps \in 1..TicksPerSecond : TicksPerSecond % fps = 0 /\ fps >= 10}

\* toFrames(seconds, fps) and the seconds of the frames it gives
AskFramesOfSeconds(seconds, fps) ==
  /\ query' = [fn |-> "toFrames", arg |-> seconds, fps |-> fps,
               value |-> toFrames(seconds, fps),
               back |-> toSeconds(toFrames(seconds, fps), fps)]
  /\ UNCHANGED <<audioDurations, videoDurations, app, indicator>>

\* toSeconds(frames, fps) and the frames of the seconds it gives
AskSecondsOfFrames(frames, fps) ==
  /\ query' = [fn |-> "toSeconds", arg |-> frames, fps |-> fps,
               value |-> toSeconds(frames, fps),
               back |-> toFrames(toSeconds(frames, fps), fps)]
  /\ UNCHANGED <<audioDurations, videoDurations, app, indicator>>

ClockInit ==
  /\ audioDurations = DurationTable({})
  /\ videoDurations = VideoTable
  /\ query = NoQuery
  /\ app = InitApp
  /\ indicator = MountIndicator(FALSE)

\* one conversion and its way back
ClockNext ==
  /\ query.fn = "none"
  /\ \/ \E seconds \in 0..ClockSpan, fps \in Rates : AskFramesOfSeconds(seconds, fps)
     \/ \E frames \in 0..ClockSpan, fps \in Rates : AskSecondsOfFrames(frames, fps)

ClockSpec == ClockInit /\ [][ClockNext]_vars

IndicatorInit ==
  /\ audioDurations = DurationTable({})
  /\ videoDurations = VideoTable
  /\ query = NoQuery
  /\ app = InitApp
  /\ \E isPlaying \in BOOLEAN : indicator = MountIndicator(isPlaying)

IndicatorNext ==
  \/ TimePasses
  \/ IntervalTick
  \/ CompleteTimeout
  \/ SwitchOff
  \/ SwitchOn
  \/ \E c \in 0..1 : ChangeChapter(c)

IndicatorSpec == IndicatorInit /\ [][IndicatorNext]_vars

DurationInit ==
  /\ audioDurations \in TrackEntryTables
  /\ videoDurations \in VideoEntryTables
  /\ query = NoQuery
  /\ app = InitApp
  /\ indicator = MountIndicator(FALSE)

\* one duration is asked of each pair of tables
DurationNext ==
  /\ query.fn = "none"
  /\ \/ \E name \in {ProbedFile, UnlistedFile}, prefixed \in BOOLEAN :
          AskTrackDuration(Ref(name, prefixed))
     \/ \E videoFile \in VideoFiles : AskVideoDuration(videoFile)

DurationSpec == DurationInit /\ [][DurationNext]_vars

TimelineInit ==
  /\ audioDurations \in DurationTables
  /\ videoDurations = VideoTable
  /\ query = NoQuery
  /\ app = InitApp
  /\ indicator = MountIndicator(FALSE)

Init ==
  /\ audioDurations \in DriverTables
  /\ videoDurations = VideoTable
  /\ query = NoQuery
  /\ app = InitApp
  /\ indicator = MountIndicator(FALSE)

Next ==
  \/ StartRequest
  \/ StartResolve
  \/ LoadedMetadata
  \/ AudioAdvance
  \/ Ended
  \/ Tick
  \/ Seek
  \/ KeyRight
  \/ KeyLeft

Spec == Init /\ [][Next]_vars

\* natural playback: the journey is started and nobody seeks
NaturalNext ==
  \/ StartRequest
  \/ StartResolve
  \/ LoadedMetadata
  \/ AudioAdvance
  \/ Ended
  \/ Tick

\* the tables natural playback is run against: those of the driver, and one
\* whose entry for the first chapter (hence its total) is two steps below the
\* sum of the entries of its tracks
NaturalTables ==
  DriverTables
  \cup {[DurationTable({}) EXCEPT !.chapterDurations[0] = @ - 2 * Quantum,
                                  !.totalDuration = @ - 2 * Quantum]}

NaturalInit ==
  /\ audioDurations \in NaturalTables
  /\ videoDurations = VideoTable
  /\ query = NoQuery
  /\ app = InitApp
  /\ indicator = MountIndicator(FALSE)

NaturalSpec == NaturalInit /\ [][NaturalNext]_vars

\* the page that plays, with a control page that records it, under the table
\* that agrees with the assets
RecordingInit ==
  /\ audioDurations = DurationTable({})
  /\ videoDurations = VideoTable
  /\ query = NoQuery
  /\ app = InitApp
  /\ indicator = MountIndicator(FALSE)

RecordingNext ==
  \/ Next
  \/ StartRecording
  \/ StopRecording

RecordingSpec == RecordingInit /\ [][RecordingNext]_vars

\* one question is put to each table
TimelineNext ==
  /\ query = NoQuery
  /\ \/ \E t \in QueryTimes : AskTrack(t)
     \/ \E i \in (0 - 2)..(NumChapters + 1) : AskChapterStart(i)
     \/ \E f \in QueryFrames : AskFrame(f)
     \/ \E c \in ChapterIndices : AskChapterFrames(c)
     \/ \E c \in (0 - 1)..NumChapters : AskChapterDuration(c)
     \/ \E c \in (0 - 1)..NumChapters : AskTrackFrames(c)
     \/ AskTotal

TimelineSpec == TimelineInit /\ [][TimelineNext]_vars


\* ------------------------------------------------------------ claims

LastChapter == NumChapters - 1

LastPair == Pair(LastChapter, NumTracks(LastChapter) - 1)

\* where track p begins and ends on the global timeline
TrackBegin(p) == getChapterStartTime(p.chapterIndex) + getTrackStartTime(p.chapterIndex, p.trackIndex)

TrackEnd(p) ==
  IF p.trackIndex = NumTracks(p.chapterIndex) - 1
  THEN getChapterStartTime(p.chapterIndex) + getChapterDuration(p.chapterIndex)
  ELSE getChapterStartTime(p.chapterIndex) + getTrackStartTime(p.chapterIndex, p.trackIndex + 1)

Contains(p, t) == p \in Pairs /\ TrackBegin(p) <= t /\ t < TrackEnd(p)

\* the end of the last chapter on the global timeline
ChaptersEnd == getChapterStartTime(LastChapter) + getChapterDuration(LastChapter)

C2_TailClamp ==
  /\ (query.fn = "getCurrentAudioTrack" /\ query.arg >= getTotalDuration)
       => query.pair = LastPair
  /\ (query.fn = "getGlobalTrackAtFrame" /\ query.arg >= getTotalFrames(FPS))
       => /\ query.pair = LastPair
          /\ query.value = toFrames(TrackDur(LastChapter, NumTracks(LastChapter) - 1), FPS)

\* C3: getChapterStartTime(0) = 0 and each later chapter starts where the one
\* before it ends: start(c+1) = start(c) + getChapterDuration(c).
C3_BoundaryConsistency ==
  query.fn = "getChapterStartTime" =>
    /\ query.arg = 0 => query.value = 0
    /\ query.arg \in 1..LastChapter =>
         query.value = getChapterStartTime(query.arg - 1) + getChapterDuration(query.arg - 1)

\* the start of chapter 2 was asked for under a table whose precomputed
\* duration of chapter 1 differs from the sum of its tracks
C3_Witness ==
  /\ query.fn = "getChapterStartTime"
  /\ query.arg = 2
  /\ 1 \in DOMAIN audioDurations.chapterDurations
  /\ audioDurations.chapterDurations[1] # SumTracks(1, NumTracks(1))

ValidPair(p) ==
  /\ p.chapterIndex \in ChapterIndices
  /\ p.trackIndex \in TrackIndices(p.chapterIndex)

Clamped(target) == Max(0, Min(target, getTotalDuration))

\* the state the driver is in after the last track of the last chapter ended
Complete(a) ==
  /\ a.isAudioStarted
  /\ a.audio.paused
  /\ a.currentAudioIndexRef = LastPair
  /\ a.currentProgress = getTotalDuration

\* C5: in every state reachable by start, polling ticks, seeks, fast-forward,
\* rewind and track-ended events, 0 <= currentProgress <= getTotalDuration().
C5_ProgressInRange ==
  0 <= app.currentProgress /\ app.currentProgress <= getTotalDuration

\* C6: in every state reachable after start the loaded pair is a valid
\* (chapter, track) position, and every position the driver writes to the
\* audio element lies in [0, getTrackDuration of the loaded track].
C6_LoadedPairAndOffset ==
  app.isAudioStarted =>
    /\ ValidPair(app.currentAudioIndexRef)
    /\ (app.last.wrote # NoWrite /\ app.last.fx \in {"none", "kept"}) =>
          /\ 0 <= app.last.wrote
          /\ app.last.wrote <= TrackDur(app.currentAudioIndexRef.chapterIndex,
                                         app.currentAudioIndexRef.trackIndex)

\* C7: on a track-ended event with loaded pair (c, k) the loaded pair becomes
\* (c, k+1) at position 0 when k is not the last track of c, else (c+1, 0) at
\* position 0 when c is not the last chapter, else playback stops; in the
\* first two cases the driver stays started and, play() accepted, playing.
C7_TrackEnded ==
  [][app'.last.op = "ended" =>
       LET c == app.currentAudioIndexRef.chapterIndex
           k == app.currentAudioIndexRef.trackIndex
           next == IF k < NumTracks(c) - 1 THEN Pair(c, k + 1) ELSE Pair(c + 1, 0)
       IN  IF k < NumTracks(c) - 1 \/ c < NumChapters - 1
           THEN /\ app'.currentAudioIndexRef = next
                /\ app'.audio.src = next
                /\ app'.audio.currentTime = 0
                /\ app'.isAudioStarted
                /\ app'.last.play = "accepted" => ~app'.audio.paused
           ELSE /\ app'.audio.paused
                /\ app'.currentAudioIndexRef = app.currentAudioIndexRef]_vars

\* the last track of a chapter has ended and the next chapter's first track plays
C7_Witness ==
  /\ app.last.op = "ended"
  /\ app.currentAudioIndexRef = Pair(1, 0)
  /\ app.audio.src = Pair(1, 0)
  /\ ~app.audio.paused

C9_ReloadIffPairDiffers ==
  [][(app.isAudioStarted /\ app'.last.op = "seek") =>
       LET resolved == getCurrentAudioTrack(Clamped(app'.last.arg))
       IN  /\ app'.last.reload <=> resolved # app.currentAudioIndexRef
           /\ ~app'.last.reload =>
                 app'.audio.src = app.audio.src /\ app'.last.play = "none"]_vars

\* C10: after seek(target) in the started state the published progress is
\* the target clamped to [0, getTotalDuration()] and the position set on the
\* loaded pair (c, k) is clamped - getChapterStartTime(c) - getTrackStartTime(c, k);
\* a seek to exactly getTotalDuration() is not ignored.
C10_SeekTakesEffect ==
  (app.isAudioStarted /\ app.last.op = "seek") =>
    LET p == app.currentAudioIndexRef
    IN  /\ ~app.last.ignored
        /\ app.currentProgress = Clamped(app.last.arg)
        /\ app.last.wrote = Clamped(app.last.arg) - getChapterStartTime(p.chapterIndex)
                              - getTrackStartTime(p.chapterIndex, p.trackIndex)

\* C11: when play() is rejected during start, isAudioStarted stays false, no
\* loaded pair is recorded, and the progress and the displayed chapter and
\* track are what they were.
C11_StartRejected ==
  [][(app'.last.op = "start" /\ app'.last.play = "rejected") =>
       /\ ~app'.isAudioStarted
       /\ ~app'.startPending
       /\ app'.currentAudioIndexRef = Null
       /\ app'.currentProgress = app.currentProgress
       /\ app'.currentChapterIndex = app.currentChapterIndex
       /\ app'.currentTrackIndex = app.currentTrackIndex]_vars

\* a start whose play() was rejected
C11_Witness ==
  /\ app.last.op = "start"
  /\ app.last.play = "rejected"
  /\ app.audio.src = Pair(0, 0)
  /\ ~app.isAudioStarted

\* C12: when play() is rejected during a switch made by a seek or by a
\* track-ended event, the loaded pair, the displayed chapter and track and
\* the published progress are those that held before the operation.
C12_SwitchRejected ==
  [][(app'.last.op \in {"seek", "ended"} /\ app'.last.play = "rejected") =>
       /\ app'.currentAudioIndexRef = app.currentAudioIndexRef
       /\ app'.currentChapterIndex = app.currentChapterIndex
       /\ app'.currentTrackIndex = app.currentTrackIndex
       /\ app'.currentProgress = app.currentProgress]_vars

\* C13: once a start request has been issued and has not failed, a further
\* start request is a no-op: it does not assign the source of track (0,0)
\* again, reset the position or the loaded pair, or undo the request.
C13_StartIdempotent ==
  [][((app.startPending \/ app.isAudioStarted) /\ app'.last.op = "start") =>
       /\ ~app'.last.reload
       /\ app'.audio = app.audio
       /\ app'.currentAudioIndexRef = app.currentAudioIndexRef
       /\ app'.startPending = app.startPending]_vars

\* C14: fast-forward and rewind never assign the source or change the loaded
\* pair; the handler moves the position within [0, length of the track] and
\* publishes chapter start + track start + new position, and the render that
\* follows does not switch the track either.
C14_SkipKeepsTrack ==
  [][(app'.last.op \in {"left", "right"} /\ ~app'.last.ignored) =>
       /\ ~app'.last.reload
       /\ app'.last.fx \in {"none", "kept"}
       /\ app'.currentAudioIndexRef = app.currentAudioIndexRef
       /\ app'.audio.src = app.audio.src
       /\ 0 <= app'.last.wrote
       /\ app'.last.wrote <= AudioLength(app.audio)
       /\ app'.currentProgress = TrackBegin(app.currentAudioIndexRef) + app'.last.wrote]_vars

\* a switch is in flight: the source was assigned and the element has not
\* yet loaded it
InFlight(a) == a.isAudioStarted /\ a.audio.src # Null /\ ~a.audio.loaded

\* the pair a clamped seek target resolves to, the end of the timeline
\* resolving to the last track
ResolvedBySeek(target) ==
  IF getCurrentAudioTrack(Clamped(target)) = Null /\ Clamped(target) >= getTotalDuration
  THEN LastPair
  ELSE getCurrentAudioTrack(Clamped(target))

\* C15: a seek issued while an earlier switch is in flight leaves the loaded
\* pair, the source and the published progress as that seek resolves them,
\* and the completion of the load changes none of them nor the position.
C15_LastSeekWins ==
  [][/\ (InFlight(app) /\ app'.last.op = "seek") =>
          /\ app'.currentAudioIndexRef = ResolvedBySeek(app'.last.arg)
          /\ app'.audio.src = ResolvedBySeek(app'.last.arg)
          /\ app'.currentProgress = Clamped(app'.last.arg)
          /\ app'.audio.currentTime = app'.last.wrote
     /\ (app'.last.op = "loaded") =>
          /\ app'.currentAudioIndexRef = app.currentAudioIndexRef
          /\ app'.audio.src = app.audio.src
          /\ app'.currentProgress = app.currentProgress
          /\ app'.audio.currentTime = app.audio.currentTime]_vars

\* ---- frames

ChapterFrames(c) == getChapterFrameRange(c, FPS).durationInFrames

\* C16: at 30 fps the chapter frame ranges tile the composition: the first
\* begins at frame 0, each later one begins where the one before it ends, and
\* the last ends at getTotalFrames().
C16_ChapterRangesTile ==
  query.fn = "getChapterFrameRange" =>
    /\ query.arg = 0 => query.value = 0
    /\ query.arg \in 1..LastChapter =>
         query.value = getChapterFrameRange(query.arg - 1, FPS).from
                       + ChapterFrames(query.arg - 1)
    /\ query.arg = LastChapter =>
         query.value + ChapterFrames(LastChapter) = getTotalFrames(FPS)

\* frame f lies in the frame range of chapter c
InChapterRange(c, f) ==
  /\ getChapterFrameRange(c, FPS).from <= f
  /\ f < getChapterFrameRange(c, FPS).from + ChapterFrames(c)

\* C17: for every frame f in [0, getTotalFrames()), getGlobalTrackAtFrame(f)
\* is not null, reports chapter c exactly when f lies in
\* getChapterFrameRange(c), and its track and frame in track are those of
\* getCurrentTrackAtFrame(c, f - getChapterFrameRange(c).from).
C17_FrameConsumersAgree ==
  (query.fn = "getGlobalTrackAtFrame" /\ 0 <= query.arg /\ query.arg < getTotalFrames(FPS)) =>
    /\ query.pair # Null
    /\ \A c \in ChapterIndices : query.pair.chapterIndex = c <=> InChapterRange(c, query.arg)
    /\ LET c == query.pair.chapterIndex
           r == getCurrentTrackAtFrame(c, query.arg - getChapterFrameRange(c, FPS).from, FPS)
       IN  query.pair.trackIndex = r.trackIndex /\ query.value = r.frameInTrack

\* C18: for every frame f in [0, getTotalFrames()) the (chapter, track) of
\* getGlobalTrackAtFrame(f, 30) is the (chapter, track) of
\* getCurrentAudioTrack(f / 30).
C18_FramesAgreeWithSeconds ==
  (query.fn = "getGlobalTrackAtFrame" /\ 0 <= query.arg /\ query.arg < getTotalFrames(FPS)) =>
    query.pair = getCurrentAudioTrack(toSeconds(query.arg, FPS))

\* ---- durations

\* C19: whatever the tables hold for a reference (no entry, zero, a negative
\* or a positive number, no table at all), getTrackDuration and
\* getVideoDuration return without throwing, and return a positive number.
C19_DurationPositive ==
  query.fn \in {"getTrackDuration", "getVideoDuration"} =>
    ~query.threw /\ query.value > 0

\* the reference has no entry in trackDurations under either of its keys
NoTrackEntry(ref) ==
  \/ "trackDurations" \notin DOMAIN audioDurations
  \/ /\ Ref(ref.name, FALSE) \notin DOMAIN audioDurations.trackDurations
     /\ Ref(ref.name, TRUE) \notin DOMAIN audioDurations.trackDurations

\* the video table is there and has no entry for the file
NoVideoEntry(videoFile) ==
  /\ "videoDurations" \in DOMAIN videoDurations
  /\ videoFile \notin DOMAIN videoDurations.videoDurations

\* C20: with an empty table getTrackDuration is 180 s and getVideoDuration
\* is 30 s for every reference, and so is every entry missing from a table
\* that is not empty.
C20_FallbackConstants ==
  /\ (query.fn = "getTrackDuration" /\ NoTrackEntry(query.arg)) =>
       query.value = Sec(180)
  /\ (query.fn = "getVideoDuration" /\ NoVideoEntry(query.arg)) =>
       ~query.threw /\ query.value = Sec(30)

\* a video missing from a table that holds another video was asked about
C20_Witness ==
  /\ query.fn = "getVideoDuration"
  /\ NoVideoEntry(query.arg)
  /\ DOMAIN videoDurations.videoDurations # {}
  /\ query.value = Sec(30)

\* ---- out of range, precomputed values, frames and seconds

\* C21: getChapterStartTime(i) is 0 for every index i outside [0, N), the
\* index N and the negative ones included.
C21_StartOutOfRange ==
  (query.fn = "getChapterStartTime" /\ query.arg \notin ChapterIndices) =>
    query.value = 0

\* C22: precomputed wins. getChapterDuration(c) of a chapter c is the entry
\* chapterDurations[c] whenever the table has one and the sum of
\* getTrackDuration over the chapter's tracks otherwise; getTotalDuration() is
\* the precomputed total whenever the table has one and the sum of the
\* chapter durations otherwise.
C22_PrecomputedWins ==
  /\ (query.fn = "getChapterDuration" /\ query.arg \in ChapterIndices) =>
       query.value = IF query.arg \in DOMAIN audioDurations.chapterDurations
                     THEN audioDurations.chapterDurations[query.arg]
                     ELSE SumTracks(query.arg, NumTracks(query.arg))
  /\ query.fn = "getTotalDuration" =>
       query.value = IF "totalDuration" \in DOMAIN audioDurations
                     THEN audioDurations.totalDuration
                     ELSE SumChapters(NumChapters)

\* C23: the seconds of toFrames(s, fps) are within one frame (1/fps s) of s,
\* for every s >= 0 and every rate, and toFrames(toSeconds(f, fps), fps) = f
\* for every frame f >= 0.
C23_RoundTrip ==
  /\ query.fn = "toFrames" =>
       /\ (query.back - query.arg) * query.fps <= TicksPerSecond
       /\ (query.arg - query.back) * query.fps <= TicksPerSecond
  /\ query.fn = "toSeconds" => query.back = query.arg

\* seconds that are not a whole number of frames went to frames and back, at
\* a rate other than the default
C23_Witness ==
  /\ query.fn = "toFrames"
  /\ query.back # query.arg
  /\ query.fps # FPS

\* ---- the timer-driven progress clock

\* C24: when playing is switched off with the clock at e and switched on
\* again within the same chapter, the first tick after that reports e plus the
\* time since playing was switched on again.
C24_ResumeContinues ==
  (indicator.op = "tick" /\ indicator.resumedAt >= 0) =>
    indicator.timeElapsed = indicator.pausedAt + (indicator.now - indicator.resumedAt)

\* ---- recording

\* the step is the track-ended event of the last track of the last chapter
CompletionStep ==
  /\ app'.recorder = app.recorder
  /\ app' # app
  /\ app'.last.op = "ended"
  /\ ~app'.last.ignored
  /\ ~app'.last.reload

\* C25: when the last track of the last chapter ends while a recording is on,
\* the driver triggers the stop-and-save of the recording; it does so on no
\* other track-ended event, and it reaches the end of the timeline whatever
\* becomes of the stop.
C25_AutoStopOnCompletion ==
  [][/\ (CompletionStep /\ app.recorder = "recording") =>
          (app'.autoStop /\ app'.currentProgress = getTotalDuration)
     /\ (~CompletionStep) => (app'.autoStop = app.autoStop)]_vars

\* ---- the polling tick and natural playback

\* C26: a polling tick while the audio plays with the loaded pair (c, k)
\* publishes min(getChapterStartTime(c) + the durations of tracks 0..k-1 of c
\* + min(position, duration of track k), getTotalDuration()); a tick while the
\* audio is paused or nothing is loaded leaves the published progress and the
\* displayed chapter and track as they are.
C26_TickArithmetic ==
  [][app'.last.op = "tick" =>
       LET p == app.currentAudioIndexRef
       IN  IF p = Null \/ app.audio.paused
           THEN /\ app'.currentProgress = app.currentProgress
                /\ app'.currentChapterIndex = app.currentChapterIndex
                /\ app'.currentTrackIndex = app.currentTrackIndex
           ELSE app'.currentProgress =
                  Min(getChapterStartTime(p.chapterIndex)
                        + getTrackStartTime(p.chapterIndex, p.trackIndex)
                        + Min(app.audio.currentTime, TrackDur(p.chapterIndex, p.trackIndex)),
                      getTotalDuration)]_vars

\* a tick published a position inside a track that is not the first of its
\* chapter
C26_Witness ==
  /\ app.last.op = "tick"
  /\ ~app.last.ignored
  /\ ~app.audio.paused
  /\ app.currentAudioIndexRef # Null
  /\ app.currentAudioIndexRef.trackIndex > 0
  /\ app.audio.currentTime > 0
  /\ app.currentProgress > TrackBegin(app.currentAudioIndexRef)

\* the progress-driven effect of the step assigned audio.src
EffectReloaded(a) == a.last.fx \in {"reload", "reload, play rejected"}

\* the position of the handle as the effect of the step found it: the one the
\* handler of the step wrote, if it wrote one
PositionAtEffect ==
  IF app'.last.wrote # NoWrite
  THEN Max(0, Min(app'.last.wrote, AudioLength(app.audio)))
  ELSE app.audio.currentTime

Successor(p) ==
  IF p.trackIndex < NumTracks(p.chapterIndex) - 1
  THEN Pair(p.chapterIndex, p.trackIndex + 1)
  ELSE Pair(p.chapterIndex + 1, 0)

\* the handle has played its track to the end and the track-ended event has
\* not been delivered yet
AtTrackEnd(a) ==
  /\ a.audio.src # Null
  /\ a.audio.loaded
  /\ ~a.audio.paused
  /\ a.audio.currentTime >= AudioLength(a.audio)

\* C28: when a track has reached its end, the pair loaded next, by the
\* track-ended handler or by the effect of a polling tick, whichever comes
\* first, is its immediate successor in play order.
C28_NoTrackSkipped ==
  [][(/\ AtTrackEnd(app)
      /\ app'.last.op \in {"tick", "ended"}
      /\ app'.audio.src # app.audio.src) =>
       /\ app'.audio.src = Successor(app.audio.src)
       /\ app'.currentAudioIndexRef = Successor(app.audio.src)]_vars

\* C29: in natural playback the published progress never decreases, across
\* polling ticks and track-ended advances, whatever the duration table.
C29_ProgressMonotone ==
  [][app'.currentProgress >= app.currentProgress]_vars

RECURSIVE SumDurationInFrames(_, _)
SumDurationInFrames(ranges, n) ==
  IF n <= 0 THEN 0
  ELSE SumDurationInFrames(ranges, n - 1) + ranges[n].durationInFrames

\* C30: inside every chapter the track frame ranges of getTrackFrameRanges
\* start at frame 0, each begins where the one before ends, and their lengths
\* add up to the chapter's durationInFrames, whatever the duration table.
C30_TracksFillChapter ==
  (query.fn = "getTrackFrameRanges" /\ query.arg \in ChapterIndices) =>
    LET ranges == query.ranges
    IN  /\ Len(ranges) = NumTracks(query.arg)
        /\ ranges[1].from = 0
        /\ \A i \in 1..(Len(ranges) - 1) :
              ranges[i + 1].from = ranges[i].from + ranges[i].durationInFrames
        /\ SumDurationInFrames(ranges, Len(ranges))
             = getChapterFrameRange(query.arg, FPS).durationInFrames
====
